---------------------------- MODULE Spec2Model ----------------------------
(***************************************************************************)
(* A model of swarm-syncable/src/Op.js: the Op record and its line         *)
(* grammar (Op.parse, Op.prototype.toString) and the OpStream connection   *)
(* that runs the grammar over a byte transport.                            *)
(*                                                                         *)
(* Text is a sequence of symbols.  A symbol is one of the special          *)
(* characters of the grammar ("/", "#", "!", ".", "+", " ", "\t", "\n"),   *)
(* a character that is neither special nor a token character ("{"), or a   *)
(* word of token characters ("Swarm", "alice", "1") that no chunk boundary *)
(* of the model splits.  Adjacent words form one token, as adjacent token  *)
(* characters do.                                                          *)
(***************************************************************************)
EXTENDS Integers, Sequences, FiniteSets, TLC

(***************************************************************************)
(* Text helpers (String.prototype.substr, indexOf, concatenation).         *)
(***************************************************************************)
Substr(s, from) == SubSeq(s, from, Len(s))

Slice(s, from, to) == SubSeq(s, from, to - 1)

Contains(s, c) == \E i \in 1..Len(s) : s[i] = c

RECURSIVE Join(_)
Join(ss) == IF ss = <<>> THEN <<>> ELSE Head(ss) \o Join(Tail(ss))

(***************************************************************************)
(* The character classes of the Spec grammar.  Spec.js is not part of the  *)
(* sources at hand; the classes follow the wire format of the              *)
(* specification: a quant, a token, an optional "+"-extension.             *)
(***************************************************************************)
rsQuant == {"/", "#", "!", "."}

Blank == {" ", "\t"}

NonToken == rsQuant \cup Blank \cup {"+", "\n", "{", "}"}

rT(c) == c \notin NonToken

(***************************************************************************)
(* The regular expressions of Op.js, as position functions over a text.    *)
(* Positions are 1-based; an end position is exclusive; 0 is "no match".   *)
(* Every quantifier of Op.rsOp is greedy and what follows a greedy run is  *)
(* never matched by a shorter run (a token, "+" or quant is no blank), so  *)
(* the backtracking matcher takes the greedy run or fails.  The {1,80} of  *)
(* a token is beyond the texts of the model.                               *)
(***************************************************************************)
RECURSIVE TokEnd(_, _)
TokEnd(s, i) == IF i <= Len(s) /\ rT(s[i]) THEN TokEnd(s, i + 1) ELSE i

RECURSIVE BlankEnd(_, _)
BlankEnd(s, i) == IF i <= Len(s) /\ s[i] \in Blank THEN BlankEnd(s, i + 1) ELSE i

RECURSIVE LineEnd(_, _)
LineEnd(s, i) == IF i <= Len(s) /\ s[i] # "\n" THEN LineEnd(s, i + 1) ELSE i

\* (?:\+ =)? after a token that ends at j
ExtEnd(s, j) ==
    IF j + 1 <= Len(s) /\ s[j] = "+" /\ rT(s[j + 1]) THEN TokEnd(s, j + 1) ELSE j

\* one unit  rsQuant = (?:\+ =)?  at i
QuantTokEnd(s, i) ==
    IF i + 1 <= Len(s) /\ s[i] \in rsQuant /\ rT(s[i + 1])
    THEN ExtEnd(s, TokEnd(s, i + 1))
    ELSE 0

\* the units from i on; last is the end of the units before i
RECURSIVE QuantTokRun(_, _, _)
QuantTokRun(s, i, last) ==
    IF QuantTokEnd(s, i) = 0 THEN last
    ELSE QuantTokRun(s, QuantTokEnd(s, i), QuantTokEnd(s, i))

\* Op.rsSpec: (?: unit )+
rsSpecEnd(s, i) == QuantTokRun(s, i, 0)

\* [ \t]+.* after a spec that ends at e: the end of the line
ValueEnd(s, e) == IF e # 0 /\ BlankEnd(s, e) > e THEN LineEnd(s, e) ELSE 0

\* Op.rsPatchOp: \n[ \t]+ rsSpec [ \t]+ .*
rsPatchOpEnd(s, i) ==
    IF i <= Len(s) /\ s[i] = "\n" /\ BlankEnd(s, i + 1) > i + 1
    THEN ValueEnd(s, rsSpecEnd(s, BlankEnd(s, i + 1)))
    ELSE 0

\* (?: rsPatchOp )*
RECURSIVE PatchRunEnd(_, _)
PatchRunEnd(s, i) ==
    IF rsPatchOpEnd(s, i) = 0 THEN i ELSE PatchRunEnd(s, rsPatchOpEnd(s, i))

NoMatch == [index |-> 0, end |-> 0, m1 |-> <<>>, m2 |-> <<>>, m3 |-> <<>>]

\* the groups of a match of Op.rsOp: the spec p..e, the value b..l, the patch
\* lines l..q
rsOpGroups(s, p, e, b, l, q) ==
    [index |-> p, end |-> q, m1 |-> Slice(s, p, e), m2 |-> Slice(s, b, l),
     m3 |-> Slice(s, l, q)]

rsOpValue(s, p, e, l) == rsOpGroups(s, p, e, BlankEnd(s, e), l, PatchRunEnd(s, l))

rsOpSpec(s, p, e) ==
    IF ValueEnd(s, e) = 0 THEN NoMatch ELSE rsOpValue(s, p, e, ValueEnd(s, e))

\* Op.rsOp anchored at p: ( rsSpec )[ \t]+(.*)((?: rsPatchOp )*)
rsOpAt(s, p) == rsOpSpec(s, p, rsSpecEnd(s, p))

\* Op.reOp.exec with the g flag: the leftmost match at or after lastIndex
RECURSIVE reOpExec(_, _)
reOpOrNext(s, lastIndex, m) ==
    IF m.index # 0 THEN m ELSE reOpExec(s, lastIndex + 1)

reOpExec(s, lastIndex) ==
    IF lastIndex > Len(s) THEN NoMatch
    ELSE reOpOrNext(s, lastIndex, rsOpAt(s, lastIndex))

\* the groups of a match of Op.rsPatchOpB: the spec a..e, the value to q
rePatchOpGroups(s, i, a, e, q) ==
    [index |-> i, end |-> q, m1 |-> Slice(s, a, e),
     m2 |-> Slice(s, BlankEnd(s, e), q), m3 |-> <<>>]

rePatchOpSpec(s, i, a, q) == rePatchOpGroups(s, i, a, rsSpecEnd(s, a), q)

\* Op.rePatchOp.exec on a patch string: the match at or after lastIndex
RECURSIVE rePatchOpExec(_, _)
rePatchOpOrNext(s, lastIndex, q) ==
    IF q # 0 THEN rePatchOpSpec(s, lastIndex, BlankEnd(s, lastIndex + 1), q)
    ELSE rePatchOpExec(s, lastIndex + 1)

rePatchOpExec(s, lastIndex) ==
    IF lastIndex > Len(s) THEN NoMatch
    ELSE rePatchOpOrNext(s, lastIndex, rsPatchOpEnd(s, lastIndex))

(***************************************************************************)
(* The address (Spec).  Spec.js is not part of the sources at hand, so the *)
(* address follows the specification: the components type "/", object id   *)
(* "#", version "!" (timestamp "+" origin) and operation name ".", each a  *)
(* token with an optional "+"-extension; <<>> is an absent component.      *)
(***************************************************************************)
EmptySpec == [q \in rsQuant |-> <<>>]

\* new Spec(text, scope): the components of the text over those of the scope
RECURSIVE SpecFill(_, _, _)
SpecFillTo(s, i, acc, u) ==
    IF u = 0 THEN acc
    ELSE SpecFill(s, u, [acc EXCEPT ![s[i]] = Slice(s, i + 1, u)])

SpecFill(s, i, acc) == SpecFillTo(s, i, acc, QuantTokEnd(s, i))

NewSpec(text, scope) == SpecFill(text, 1, scope)

\* spec.typeId(): the type and object id alone
typeId(spec) == [EmptySpec EXCEPT !["/"] = spec["/"], !["#"] = spec["#"]]

\* spec.pattern(): the quants of the components present, in canonical order
pattern(spec) ==
    (IF spec["/"] # <<>> THEN <<"/">> ELSE <<>>) \o
    (IF spec["#"] # <<>> THEN <<"#">> ELSE <<>>) \o
    (IF spec["!"] # <<>> THEN <<"!">> ELSE <<>>) \o
    (IF spec["."] # <<>> THEN <<".">> ELSE <<>>)

RECURSIVE IndexOf(_, _, _)
IndexOf(s, c, i) ==
    IF i > Len(s) THEN 0 ELSE IF s[i] = c THEN i ELSE IndexOf(s, c, i + 1)

CutBefore(s, at) == IF at = 0 THEN s ELSE Slice(s, 1, at)

CutAfter(s, at) == IF at = 0 THEN <<>> ELSE Substr(s, at + 1)

Before(s, c) == CutBefore(s, IndexOf(s, c, 1))

After(s, c) == CutAfter(s, IndexOf(s, c, 1))

\* spec.stamp(): the timestamp of the version
SpecStamp(spec) == Before(spec["!"], "+")

\* spec.origin(): the origin (session) of the version
SpecOrigin(spec) == After(spec["!"], "+")

\* spec.author(): the origin without its "~session" part
SpecAuthor(spec) == Before(SpecOrigin(spec), "~")

\* spec.toString(): the components present, in canonical order
SpecToString(spec) ==
    (IF spec["/"] # <<>> THEN <<"/">> \o spec["/"] ELSE <<>>) \o
    (IF spec["#"] # <<>> THEN <<"#">> \o spec["#"] ELSE <<>>) \o
    (IF spec["!"] # <<>> THEN <<"!">> \o spec["!"] ELSE <<>>) \o
    (IF spec["."] # <<>> THEN <<".">> \o spec["."] ELSE <<>>)

\* spec.stampop(): version and operation name
stampop(spec) ==
    (IF spec["!"] # <<>> THEN <<"!">> \o spec["!"] ELSE <<>>) \o
    (IF spec["."] # <<>> THEN <<".">> \o spec["."] ELSE <<>>)

(***************************************************************************)
(* Op: specifier, value, source and patch.  The empty value and the empty  *)
(* source are '', here <<>>; a null patch is <<>> (Op.parse builds a patch *)
(* only from a non-empty patch string, so a parsed patch is never empty).  *)
(***************************************************************************)
NewOp(spec, value, source, patch) ==
    [spec |-> spec, value |-> value, source |-> source, patch |-> patch]

\* Op.prototype.name / op
OpName(op) == op.spec["."]

toShortString(o) == stampop(o.spec) \o <<"\t">> \o o.value

RECURSIVE PatchLines(_)
PatchLines(patch) ==
    IF patch = <<>> THEN <<>>
    ELSE <<"\n", "\t">> \o toShortString(Head(patch)) \o PatchLines(Tail(patch))

\* Op.prototype.toString(): no context, no trailing newline
toString(op) ==
    SpecToString(op.spec) \o <<"\t">> \o op.value \o
    (IF OpName(op) = <<"on">> /\ op.patch # <<>> THEN PatchLines(op.patch) ELSE <<>>)

(***************************************************************************)
(* Op.parse                                                                *)
(***************************************************************************)
\* 1<<23, the op size limit, scaled to the texts of the model
MaxRemainder == 8

\* the inner loop: one Op per patch line, scoped by the parent's typeId
RECURSIVE ParsePatch(_, _, _, _, _)
ParsePatchStep(patch_str, mm, scope, source, patch) ==
    IF mm.index = 0 THEN patch
    ELSE ParsePatch(patch_str, mm.end, scope, source,
                    Append(patch, NewOp(NewSpec(mm.m1, scope), mm.m2, source, <<>>)))

ParsePatch(patch_str, lastIndex, scope, source, patch) ==
    ParsePatchStep(patch_str, rePatchOpExec(patch_str, lastIndex), scope, source, patch)

\* the Op of one match of Op.reOp
ParsedOp(spec, value, patch_str, source) ==
    NewOp(spec, value, source,
          IF patch_str # <<>>
          THEN ParsePatch(patch_str, 1, typeId(spec), source, <<>>)
          ELSE <<>>)

\* the outer loop, from lastIndex on: ops collects the matches, d is the end
\* of the last match (d keeps its value when nothing matches)
RECURSIVE ParseLoop(_, _, _, _, _)
ParseStep(rem, m, source, ops, d) ==
    IF m.index = 0 THEN [ops |-> ops, d |-> d]
    ELSE ParseLoop(rem, m.end, source,
                   Append(ops, ParsedOp(NewSpec(m.m1, EmptySpec), m.m2, m.m3, source)),
                   m.end)

ParseLoop(rem, lastIndex, source, ops, d) ==
    ParseStep(rem, reOpExec(rem, lastIndex), source, ops, d)

\* /\n+/g.exec(rem) at index 0: the leading run of newlines
RECURSIVE NewlineRunEnd(_, _)
NewlineRunEnd(s, i) ==
    IF i <= Len(s) /\ s[i] = "\n" THEN NewlineRunEnd(s, i + 1) ELSE i

\* the end of Op.parse without the check of the size
ParseResult_NoLimit(ops, rem) ==
    IF Contains(rem, "\n") /\ reOpExec(rem, 1).index = 0
    THEN [ops |-> <<>>, remainder |-> <<>>, error |-> "unparseable input"]
    ELSE [ops |-> ops, remainder |-> rem, error |-> "none"]

\* the end of Op.parse: the checks of the remainder, and the result
ParseResult(ops, rem) ==
    IF Contains(rem, "\n") /\ reOpExec(rem, 1).index = 0
    THEN [ops |-> <<>>, remainder |-> <<>>, error |-> "unparseable input"]
    ELSE IF Len(rem) > MaxRemainder
    THEN [ops |-> <<>>, remainder |-> <<>>, error |-> "large unparseable input"]
    ELSE [ops |-> ops, remainder |-> rem, error |-> "none"]

\* rem without its leading run of newlines
SkipNewlines(rem) == Substr(rem, NewlineRunEnd(rem, 1))

\* rem = rem.substr(d), and on
ParseRemainder(str, loop) == ParseResult(loop.ops, SkipNewlines(Substr(str, loop.d)))

\* Op.parse(str, source): {ops, remainder}, or the error it throws
Parse(str, source) == ParseRemainder(str, ParseLoop(str, 1, source, <<>>, 1))

(***************************************************************************)
(* The texts of the model: what the peer puts on the wire and what the     *)
(* owner of the connection sends.                                          *)
(***************************************************************************)
HandshakeLine ==
    <<"/", "Swarm", "#", "db", "!", "1", "+", "alice", ".", "on", "\t", "{", "}">>

BadOptionsLine ==
    <<"/", "Swarm", "#", "db", "!", "1", "+", "alice", ".", "on", "\t", "{">>

SetAlice ==
    <<"/", "Model", "#", "obj", "!", "2", "+", "alice", ".", "set", "\t", "v">>

SetBob ==
    <<"/", "Model", "#", "obj", "!", "3", "+", "bob", ".", "set", "\t", "w">>

Garbage == <<"x">>

NL == <<"\n">>

\* the inbound chunks: a keep-alive, whole lines, several lines at once, a
\* line cut in two, a line that is no op, a piece of a line longer than
\* MaxRemainder
Chunks ==
    { <<>>,
      HandshakeLine \o NL,
      BadOptionsLine \o NL,
      HandshakeLine \o NL \o SetAlice \o NL \o SetBob \o NL,
      SetAlice \o NL \o SetBob \o NL,
      SetBob \o NL,
      Garbage \o NL,
      HandshakeLine \o NL \o SubSeq(SetAlice, 1, 8),
      SubSeq(SetAlice, 9, 12) \o NL,
      SubSeq(SetAlice, 1, 9) }

\* new Op(text): the one op a serialized line parses to
OpOf(text) == Parse(text, <<>>).ops[1]

\* the ops the owner sends, and what it offers to sendHandshake
SendOps == {OpOf(SetBob)}

\* an "on" of a type that holds the family name but does not begin with it
LookalikeLine ==
    <<"/", "x", "Swarm", "#", "db", "!", "1", "+", "alice", ".", "on", "\t", "{", "}">>

HandshakeOps == {OpOf(HandshakeLine), OpOf(SetAlice), OpOf(LookalikeLine)}

\* end() without an argument
Nothing == NewOp(EmptySpec, <<>>, <<>>, <<>>)

(***************************************************************************)
(* Bounds of the model.                                                    *)
(***************************************************************************)
MaxChunks == 2

MaxSends == 2

MaxTime == 2

\* the handshakes the owner gets enqueued
MaxHandshakes == 1

\* options.keepAliveInterval || 50000, in ticks of the model's clock
keepAliveInterval == 1

(***************************************************************************)
(* The state.  The fields of the OpStream object keep their names; the     *)
(* rest is the environment (clock, event loop, transport) and what the     *)
(* consumer and the callers observe.                                       *)
(***************************************************************************)
VARIABLES
    options,        \* {keepAlive, restrictAuthor}
    asyncFlush,     \* this.asyncFlush, set by the owner or left undefined
    stream,         \* "transport" or "null"
    pending_s,      \* the outbound queue
    ssn_id, db_id, stamp,
    peer_ssn_id, peer_db_id, peer_stamp, peer_options,
    remainder,
    flush_timeout,  \* "null" or the handle setTimeout returned
    lastSendTime,
    timer,          \* "null" or the handle setInterval returned
    now,            \* the clock
    timeouts,       \* the deferred flush callbacks the event loop still holds
    written,        \* the parcels stream.write accepted, in order
    streamEnded,    \* calls of stream.end()
    ids, errors, ends,  \* 'id', 'error' and 'end' events emitted
    delivered,      \* the ops pushed to the consumer, in order
    raised,         \* the exception the last call raised to its caller
    sent,           \* history: the ops handed to _write, in order
    chunks,         \* history: the number of inbound chunks
    chunkAt,        \* history: Len(delivered) when the last chunk arrived
    rejectedAt,     \* history: -1, or Len(delivered) when a handshake failed the shape test
    mismatchAt,     \* history: -1, or Len(delivered) when an author mismatch was met
    faults,         \* history: the faults met (bad format, handshake, options, author, write)
    arrived,        \* history: the ops Op.parse returned, the handshake taken off, in order
    built,          \* a caller of Op.parse: the ops the document is the text of, if any
    doc, cut,       \* the document it reads, and where it is cut
    fed,            \* the chunks of doc handed to Op.parse so far
    got,            \* the ops Op.parse returned, in order
    rest,           \* the remainder Op.parse returned last
    failed          \* "none", or the error Op.parse threw

streamVars ==
    <<options, asyncFlush, stream, pending_s, ssn_id, db_id, stamp,
      peer_ssn_id, peer_db_id, peer_stamp, peer_options, remainder,
      flush_timeout, lastSendTime, timer, now, timeouts, written, streamEnded,
      ids, errors, ends, delivered, raised, sent, chunks, chunkAt, rejectedAt,
      mismatchAt, faults, arrived>>

parseVars == <<built, doc, cut, fed, got, rest, failed>>

vars == <<streamVars, parseVars>>

\* the state as one record, for the handlers to transform; every call starts
\* with no exception in flight
Self ==
    [options |-> options, asyncFlush |-> asyncFlush, stream |-> stream,
     pending_s |-> pending_s, ssn_id |-> ssn_id, db_id |-> db_id,
     stamp |-> stamp, peer_ssn_id |-> peer_ssn_id, peer_db_id |-> peer_db_id,
     peer_stamp |-> peer_stamp, peer_options |-> peer_options,
     remainder |-> remainder, flush_timeout |-> flush_timeout,
     lastSendTime |-> lastSendTime, timer |-> timer, now |-> now,
     timeouts |-> timeouts, written |-> written, streamEnded |-> streamEnded,
     ids |-> ids, errors |-> errors, ends |-> ends, delivered |-> delivered,
     raised |-> "none", sent |-> sent, chunks |-> chunks,
     chunkAt |-> chunkAt, rejectedAt |-> rejectedAt, mismatchAt |-> mismatchAt,
     faults |-> faults, arrived |-> arrived]

Commit(s) ==
    /\ options' = s.options
    /\ asyncFlush' = s.asyncFlush
    /\ stream' = s.stream
    /\ pending_s' = s.pending_s
    /\ ssn_id' = s.ssn_id
    /\ db_id' = s.db_id
    /\ stamp' = s.stamp
    /\ peer_ssn_id' = s.peer_ssn_id
    /\ peer_db_id' = s.peer_db_id
    /\ peer_stamp' = s.peer_stamp
    /\ peer_options' = s.peer_options
    /\ remainder' = s.remainder
    /\ flush_timeout' = s.flush_timeout
    /\ lastSendTime' = s.lastSendTime
    /\ timer' = s.timer
    /\ now' = s.now
    /\ timeouts' = s.timeouts
    /\ written' = s.written
    /\ streamEnded' = s.streamEnded
    /\ ids' = s.ids
    /\ errors' = s.errors
    /\ ends' = s.ends
    /\ delivered' = s.delivered
    /\ raised' = s.raised
    /\ sent' = s.sent
    /\ chunks' = s.chunks
    /\ rejectedAt' = s.rejectedAt
    /\ mismatchAt' = s.mismatchAt
    /\ chunkAt' = s.chunkAt
    /\ faults' = s.faults
    /\ arrived' = s.arrived
    /\ UNCHANGED parseVars

\* function OpStream (stream, options): the object after construction
InitOpStream ==
    /\ options \in [keepAlive : BOOLEAN, restrictAuthor : {<<>>, <<"alice">>}]
    /\ asyncFlush \in BOOLEAN
    /\ stream = "transport"
    /\ pending_s = <<>>
    /\ ssn_id = <<>>
    /\ db_id = <<>>
    /\ stamp = <<"0">>
    /\ peer_ssn_id = <<>>
    /\ peer_db_id = <<>>
    /\ peer_stamp = <<>>
    /\ peer_options = <<>>
    /\ remainder = <<>>
    /\ flush_timeout = "null"
    /\ lastSendTime = 0
    /\ timer = IF options.keepAlive THEN "interval" ELSE "null"
    /\ now = 0
    /\ timeouts = 0
    /\ written = <<>>
    /\ streamEnded = 0
    /\ ids = 0
    /\ errors = 0
    /\ ends = 0
    /\ delivered = <<>>
    /\ raised = "none"
    /\ sent = <<>>
    /\ chunks = 0
    /\ chunkAt = 0
    /\ rejectedAt = -1
    /\ mismatchAt = -1
    /\ faults = 0
    /\ arrived = <<>>

\* no caller of Op.parse besides the connection
InitIdleParser ==
    /\ built = <<>>
    /\ doc = <<>>
    /\ cut = 0
    /\ fed = 0
    /\ got = <<>>
    /\ rest = <<>>
    /\ failed = "none"

Init == InitOpStream /\ InitIdleParser

(***************************************************************************)
(* The handlers, as functions from the state before to the state after.    *)
(* s.raised holds an exception in flight: a handler that throws returns    *)
(* the state at the throw with raised set, and a catch clears it.          *)
(* stream.write either accepts the parcel or throws (fail).  The listeners *)
(* of 'id', 'error' and 'end' observe and call nothing back.               *)
(***************************************************************************)
RECURSIVE end(_, _, _)
RECURSIVE onStreamError(_)

\* this.emit('error', err); if still open, this.end() and drop the stream
onStreamError(s) ==
    IF s.stream # "null"
    THEN [end([s EXCEPT !.errors = @ + 1], Nothing, FALSE) EXCEPT !.stream = "null"]
    ELSE s

\* this.pending_s.join(''): the texts of the queued ops, one after the other
Parcel(q) == Join([i \in 1..Len(q) |-> toString(q[i])])

\* flush without its try/catch: the failure of stream.write leaves flush
flush_Uncaught(s, fail) ==
    IF s.stream = "null" THEN s
    ELSE IF fail
    THEN [s EXCEPT !.pending_s = <<>>, !.faults = @ + 1, !.raised = "ioex"]
    ELSE [s EXCEPT !.pending_s = <<>>,
                   !.written = Append(@, Parcel(s.pending_s)),
                   !.lastSendTime = s.now]

\* flush without the test of the stream
flush_Unguarded(s, fail) ==
    IF fail
    THEN onStreamError([s EXCEPT !.pending_s = <<>>, !.faults = @ + 1])
    ELSE [s EXCEPT !.pending_s = <<>>,
                   !.written = Append(@, Parcel(s.pending_s)),
                   !.lastSendTime = s.now]

\* flush that leaves the queue as it is: what was written stays queued
flush_KeepsQueue(s, fail) ==
    IF s.stream = "null" THEN s
    ELSE IF fail
    THEN onStreamError([s EXCEPT !.faults = @ + 1])
    ELSE [s EXCEPT !.written = Append(@, Parcel(s.pending_s)),
                   !.lastSendTime = s.now]

\* one parcel of everything queued, one stream.write, lastSendTime
flush(s, fail) ==
    IF s.stream = "null" THEN s
    ELSE IF fail
    THEN onStreamError([s EXCEPT !.pending_s = <<>>, !.faults = @ + 1])
    ELSE [s EXCEPT !.pending_s = <<>>,
                   !.written = Append(@, Parcel(s.pending_s)),
                   !.lastSendTime = s.now]

\* _write: enqueue, then arm the deferred flush or flush at once
write(s, op, fail) ==
    IF s.asyncFlush
    THEN IF s.flush_timeout = "null"
         THEN [s EXCEPT !.pending_s = Append(@, op), !.sent = Append(@, op),
                        !.flush_timeout = "timeout", !.timeouts = @ + 1]
         ELSE [s EXCEPT !.pending_s = Append(@, op), !.sent = Append(@, op)]
    ELSE flush([s EXCEPT !.pending_s = Append(@, op), !.sent = Append(@, op)], fail)

\* this.stream.end(); this.stream = null
endStream(s) ==
    IF s.stream = "null"
    THEN [s EXCEPT !.raised = "TypeError"]
    ELSE [s EXCEPT !.streamEnded = @ + 1, !.stream = "null"]

end(s, something, fail) ==
    IF s.stream = "null"
    THEN [s EXCEPT !.raised = "this op stream is not open"]
    ELSE endStream(IF something # Nothing THEN write(s, something, fail) ELSE s)

\* String.prototype.toLowerCase on the words of the model
toLowerCase(t) ==
    [i \in 1..Len(t) |-> IF t[i] \in {"ON", "On", "oN"} THEN "on" ELSE t[i]]

\* the shape test of sendHandshake and onHandshake
IsHandshake(op) ==
    /\ pattern(op.spec) = <<"/", "#", "!", ".">>
    /\ Contains(op.spec["/"], "Swarm")
    /\ toLowerCase(OpName(op)) = <<"on">>

\* JSON.parse accepts the text (of the values of the model: an empty object)
JSONParses(value) == value = <<"{", "}">>

sendHandshake(s, op, fail) ==
    IF ~IsHandshake(op)
    THEN [s EXCEPT !.raised = "not a handshake"]
    ELSE write([s EXCEPT !.db_id = op.spec["#"],
                         !.ssn_id = SpecOrigin(op.spec),
                         !.stamp = SpecStamp(op.spec)], op, fail)

onHandshake(s, op) ==
    IF ~IsHandshake(op)
    THEN onStreamError([s EXCEPT !.rejectedAt =
                            IF @ = -1 THEN Len(s.delivered) ELSE @,
                            !.faults = @ + 1])
    ELSE IF op.value # <<>> /\ ~JSONParses(op.value)
    THEN [s EXCEPT !.peer_db_id = op.spec["#"],
                   !.peer_ssn_id = SpecOrigin(op.spec),
                   !.raised = "SyntaxError"]
    ELSE [s EXCEPT !.peer_db_id = op.spec["#"],
                   !.peer_ssn_id = SpecOrigin(op.spec),
                   !.peer_options = op.value,
                   !.peer_stamp = SpecStamp(op.spec),
                   !.ids = @ + 1]

\* the loop without the check of the author: every op is pushed
PushOps_Unchecked(s, ops, author) == [s EXCEPT !.delivered = @ \o ops]

\* the loop that passes over an op of another author and goes on
PushOps_SkipsMismatch(s, ops, author) ==
    [s EXCEPT !.delivered =
        @ \o SelectSeq(ops, LAMBDA o : author = <<>> \/ SpecAuthor(o.spec) = author)]

\* the loop of onStreamDataReceived: check the author, push
RECURSIVE PushOps(_, _, _)
PushOps(s, ops, author) ==
    IF ops = <<>> THEN s
    ELSE IF author # <<>> /\ SpecAuthor(Head(ops).spec) # author
    THEN onStreamError([s EXCEPT !.mismatchAt =
                            IF @ = -1 THEN Len(s.delivered) ELSE @,
                            !.faults = @ + 1])
    ELSE PushOps([s EXCEPT !.delivered = Append(@, Head(ops))], Tail(ops), author)

\* after onHandshake: an exception skips the loop
PushAfterHandshake(s, ops) ==
    IF s.raised # "none" THEN s ELSE PushOps(s, ops, s.options.restrictAuthor)

\* catch (ex) { this.onStreamError(ex); }
CatchToStreamError(s) ==
    IF s.raised # "none"
    THEN onStreamError([s EXCEPT !.raised = "none", !.faults = @ + 1])
    ELSE s

\* the try block: the handshake gate, then the loop
onOps(s, ops) ==
    CatchToStreamError(
        IF s.peer_stamp = <<>>
        THEN PushAfterHandshake(
                 onHandshake([s EXCEPT !.arrived = @ \o Tail(ops)], Head(ops)),
                 Tail(ops))
        ELSE PushOps([s EXCEPT !.arrived = @ \o ops], ops, s.options.restrictAuthor))

\* after Op.parse: s holds the whole buffer as its remainder
onParsed(s, parsed) ==
    IF parsed.error # "none" THEN onStreamError([s EXCEPT !.faults = @ + 1])
    ELSE IF parsed.ops = <<>> THEN [s EXCEPT !.remainder = parsed.remainder]
    ELSE onOps([s EXCEPT !.remainder = parsed.remainder], parsed.ops)

onStreamDataReceived(s, data) ==
    IF s.stream = "null" THEN s
    ELSE IF data = <<>> THEN s
    ELSE onParsed([s EXCEPT !.remainder = @ \o data],
                  Parse(s.remainder \o data, s.peer_stamp))

onStreamEnded(s) == [s EXCEPT !.stream = "null", !.ends = @ + 1]

onTimer(s, fail) ==
    IF s.options.keepAlive /\ s.now - s.lastSendTime > keepAliveInterval
    THEN flush(s, fail)
    ELSE s

(***************************************************************************)
(* The actions: the calls of the owner, the events of the transport, the   *)
(* callbacks of the event loop.                                            *)
(***************************************************************************)
Send(op, fail) ==
    /\ Len(sent) < MaxSends
    /\ Commit(write(Self, op, fail))

SendHandshake(op, fail) ==
    /\ Len(sent) < MaxSends
    /\ Len(SelectSeq(sent, LAMBDA o : o \in HandshakeOps)) < MaxHandshakes
    /\ Commit(sendHandshake(Self, op, fail))

\* the owner flushes what is queued
Flush(fail) ==
    /\ pending_s # <<>>
    /\ Commit(flush(Self, fail))

DeferredFlush(fail) ==
    /\ timeouts > 0
    /\ Commit(flush([Self EXCEPT !.timeouts = @ - 1], fail))

End(something, fail) ==
    /\ Len(sent) < MaxSends \/ something = Nothing
    /\ Commit(end(Self, something, fail))

OnStreamDataReceived(data) ==
    /\ chunks < MaxChunks
    /\ Commit(onStreamDataReceived([Self EXCEPT !.chunks = @ + 1,
                                                 !.chunkAt = Len(delivered)], data))

\* the transport emits 'end' once
OnStreamEnded ==
    /\ ends = 0
    /\ Commit(onStreamEnded(Self))

OnStreamError ==
    /\ Commit(onStreamError(Self))

\* the interval callback: one more tick of the clock has passed
OnTimer(fail) ==
    /\ timer # "null"
    /\ now < MaxTime
    /\ Commit(onTimer([Self EXCEPT !.now = @ + 1], fail))

Next ==
    \/ \E op \in SendOps, fail \in BOOLEAN : Send(op, fail)
    \/ \E op \in HandshakeOps, fail \in BOOLEAN : SendHandshake(op, fail)
    \/ \E fail \in BOOLEAN : Flush(fail)
    \/ \E fail \in BOOLEAN : DeferredFlush(fail)
    \/ \E something \in SendOps \cup {Nothing}, fail \in BOOLEAN : End(something, fail)
    \/ \E data \in Chunks : OnStreamDataReceived(data)
    \/ OnStreamEnded
    \/ OnStreamError
    \/ \E fail \in BOOLEAN : OnTimer(fail)

Spec == Init /\ [][Next]_vars

(***************************************************************************)
(* Op.parse on its own: a caller reads a document in two chunks, keeping   *)
(* the remainder of the first call in front of the second chunk, as        *)
(* onStreamDataReceived does.  The document is a text as it stands, or the *)
(* text flush writes for one or two ops (a cut at the end of the document  *)
(* is one call on the whole text).                                         *)
(***************************************************************************)
ShortOn == <<"#", "a", ".", "on", "\t", "p", "q">>

ShortSet == <<"#", "b", ".", "set", "\t", "r", "s">>

PatchLine == <<"\t", ".", "set", "\t", "r">>

\* valid documents: two ops, an op with a patch line, ops around an empty line
Docs ==
    { ShortOn \o NL \o ShortSet \o NL,
      ShortOn \o NL \o PatchLine \o NL,
      ShortOn \o NL \o NL \o ShortSet \o NL }

\* texts with a line that is no op: a line of its own, and in front of an op
Malformed ==
    { Garbage \o NL \o ShortSet \o NL,
      Garbage \o <<" ">> \o ShortSet \o NL }

\* new Op(spec, value): an op made by the owner, not parsed
MadeOp(spec, value) == NewOp(NewSpec(spec, EmptySpec), value, <<>>, <<>>)

\* ops to serialize: plain values, a value that starts with a blank, a value
\* with a newline in it
PlainOps ==
    { MadeOp(<<"#", "a", ".", "on">>, <<"p">>),
      MadeOp(<<"#", "b", ".", "set">>, <<"r">>) }

OddOps ==
    { MadeOp(<<"#", "a", ".", "set">>, <<" ", "p">>),
      MadeOp(<<"#", "a", ".", "set">>, <<"p", "\n", "q">>) }

\* what the owner sends: one op, or two plain ops one after the other
OpSeqs ==
    { <<o>> : o \in PlainOps \cup OddOps } \cup
    { <<o1, o2>> : o1 \in PlainOps, o2 \in PlainOps }

\* the chunks of doc cut at cut
ChunkOf(d, c, n) == IF n = 1 THEN SubSeq(d, 1, c) ELSE SubSeq(d, c + 1, Len(d))

InitParse ==
    /\ options = [keepAlive |-> FALSE, restrictAuthor |-> <<>>]
    /\ asyncFlush = FALSE
    /\ InitOpStream
    /\ built \in {<<>>} \cup OpSeqs
    /\ doc \in IF built = <<>> THEN Docs \cup Malformed ELSE {Parcel(built)}
    /\ cut \in 0..Len(doc)
    /\ fed = 0
    /\ got = <<>>
    /\ rest = <<>>
    /\ failed = "none"

\* what the caller keeps of one result of Op.parse
KeepParsed(parsed) ==
    /\ failed' = parsed.error
    /\ got' = got \o parsed.ops
    /\ rest' = parsed.remainder

\* Op.parse(rest + chunk)
ParseChunk ==
    /\ fed < 2
    /\ failed = "none"
    /\ fed' = fed + 1
    /\ KeepParsed(Parse(rest \o ChunkOf(doc, cut, fed + 1), <<>>))
    /\ UNCHANGED <<built, doc, cut, streamVars>>

NextParse == ParseChunk

SpecParse == InitParse /\ [][NextParse]_vars

(***************************************************************************)
(* Properties of the connection, checked under Spec.                       *)
(***************************************************************************)
Closed == stream = "null"

\* C1: once the first op of a Fresh connection has failed the handshake
\* shape test, exactly one error signal has been emitted and no op has been
\* delivered to the consumer, the ops that follow it in the chunk included.
C1_BadHandshakeDeliversNothing ==
    rejectedAt # -1 => (errors = 1 /\ delivered = <<>>)

\* C2: an op is delivered to the consumer only after the 'id' signal has
\* been emitted and the peer identity is recorded; nothing is delivered
\* while the connection is Fresh.
C2_DeliveryOnlyAfterId ==
    delivered # <<>> => (ids >= 1 /\ peer_stamp # <<>>)

\* C3: on a Closed connection every send(op) raises an error to its caller
\* and leaves the outbound queue as it was.
C3_SendOnClosedFails ==
    [][(Closed /\ \E op \in SendOps, fail \in BOOLEAN : Send(op, fail))
          => (raised' # "none" /\ pending_s' = pending_s)]_vars

\* C4: Closed is terminal: no step taken on a Closed connection changes the
\* outbound queue, the local identity, the peer identity, the remainder or
\* lastSendTime.
C4_ClosedIsTerminal ==
    [][Closed => UNCHANGED <<pending_s, ssn_id, db_id, stamp, peer_ssn_id,
                             peer_db_id, peer_stamp, peer_options, remainder,
                             lastSendTime>>]_vars

\* C5: the 'end' signal is emitted at most once, and a transport end event
\* on a Closed connection emits nothing and changes nothing.
C5_EndSignalOnce ==
    [][/\ ends' <= 1
       /\ (Closed /\ OnStreamEnded) =>
              UNCHANGED <<ends, errors, ids, delivered, stream, pending_s,
                          remainder, written, streamEnded>>]_vars

\* the exceptions of the faults: of Op.parse, of the handshake, of JSON.parse,
\* of the author check, of stream.write
FaultNames ==
    {"unparseable input", "large unparseable input", "bad op format",
     "invalid handshake", "SyntaxError", "access violation", "ioex"}

\* C6: no fault met in an inbound chunk or in the write of a flush is raised
\* to the caller; once a fault was met exactly one error signal has been
\* emitted and the connection is Closed; at most one error signal is ever
\* emitted, and no step on a Closed connection emits one.
C6_FaultsBecomeOneError ==
    /\ [](/\ raised \notin FaultNames
          /\ errors <= 1
          /\ faults >= 1 => (errors = 1 /\ Closed))
    /\ [][Closed => errors' = errors]_vars

\* a fault was met: one error signal, the connection Closed, nothing raised
C6_FaultMet ==
    /\ faults >= 1
    /\ errors = 1
    /\ Closed
    /\ raised = "none"

\* C7 as stated: after an author mismatch exactly one error signal has been
\* emitted, the connection is Closed, no op of the chunk of the mismatch has
\* been delivered, and no op of another author is ever delivered.
C7_MismatchChunkDeliversNothing ==
    /\ mismatchAt # -1 => (errors = 1 /\ Closed /\ Len(delivered) = chunkAt)
    /\ options.restrictAuthor # <<>> =>
           \A i \in 1..Len(delivered) :
               SpecAuthor(delivered[i].spec) = options.restrictAuthor

\* C7, amended: after an author mismatch exactly one error signal has been
\* emitted, the connection is Closed, and neither the mismatching op nor any
\* op after it (of its chunk or of a later chunk) is delivered; the ops of
\* the chunk that precede the mismatching op are delivered.  No op of
\* another author is ever delivered.
C7_MismatchStopsDelivery ==
    /\ mismatchAt # -1 => (errors = 1 /\ Closed /\ Len(delivered) = mismatchAt)
    /\ options.restrictAuthor # <<>> =>
           \A i \in 1..Len(delivered) :
               SpecAuthor(delivered[i].spec) = options.restrictAuthor

\* an op of the restricted author was delivered, then the next op of the
\* same chunk had another author
C7_MismatchAfterDelivery ==
    /\ options.restrictAuthor = <<"alice">>
    /\ mismatchAt >= 1
    /\ chunkAt < mismatchAt
    /\ rejectedAt = -1

\* C9: with asyncFlush, on an open connection, a deferred flush is pending
\* whenever the outbound queue is not empty.
C9_QueuedImpliesFlushPending ==
    (asyncFlush /\ ~Closed /\ pending_s # <<>>) => timeouts > 0

\* C10: end(finalOp) on an open connection, the transport accepting what it
\* is given, writes the text of the queued ops and of finalOp to the
\* transport and ends the transport.
C10_EndWritesFinalOp ==
    [][\A something \in SendOps :
          (~Closed /\ End(something, FALSE)) =>
              /\ Join(written') = Join(written) \o Parcel(Append(pending_s, something))
              /\ streamEnded' = streamEnded + 1]_vars

\* C11: while the connection is open, what was written to the transport and
\* what is queued is, in order, the text of the ops sent; what was written
\* is always the text of a prefix of the ops sent; a flush of an open
\* connection that the transport accepts is one write and empties the queue.
C11_OutboundInOrder ==
    /\ [](/\ ~Closed => Join(written) \o Parcel(pending_s) = Parcel(sent)
          /\ \E k \in 0..Len(sent) : Join(written) = Parcel(SubSeq(sent, 1, k)))
    /\ [][(~Closed /\ (Flush(FALSE) \/ DeferredFlush(FALSE))) =>
              /\ written' = Append(written, Parcel(pending_s))
              /\ pending_s' = <<>>]_vars

\* two different ops were sent with coalescing, and both are written, in order
C11_TwoOpsWritten ==
    /\ ~Closed
    /\ asyncFlush
    /\ Len(sent) = 2
    /\ sent[1] # sent[2]
    /\ pending_s = <<>>
    /\ Len(written) >= 1
    /\ Join(written) = Parcel(sent)

\* C12: the ops delivered to the consumer are, in order and each once, a
\* prefix of the ops decoded from the inbound chunks with the handshake
\* taken off; a step adds to what was delivered at its end only.
C12_DeliveredInArrivalOrder ==
    /\ [](/\ Len(delivered) <= Len(arrived)
          /\ delivered = SubSeq(arrived, 1, Len(delivered)))
    /\ [][/\ Len(delivered') >= Len(delivered)
           /\ SubSeq(delivered', 1, Len(delivered)) = delivered]_vars

\* ops of two chunks were delivered, those of the first chunk first
C12_TwoChunksDelivered ==
    /\ chunks = 2
    /\ chunkAt >= 1
    /\ Len(delivered) > chunkAt
    /\ delivered[1] # delivered[Len(delivered)]

\* C15: in a Closed state neither the keep-alive interval nor a deferred
\* flush is armed.
C15_TimersCancelledOnClose ==
    Closed => (timer = "null" /\ timeouts = 0)

\* a handshake as the protocol has it: the pattern type, id, version, name;
\* a type that is the family name, alone or with "+" and a profile; the name
\* "on" in any case
ProperHandshake(op) ==
    /\ pattern(op.spec) = <<"/", "#", "!", ".">>
    /\ \/ op.spec["/"] = <<"Swarm">>
       \/ Len(op.spec["/"]) >= 3 /\ SubSeq(op.spec["/"], 1, 2) = <<"Swarm", "+">>
    /\ toLowerCase(OpName(op)) = <<"on">>

\* C16: sendHandshake(op) of an op that is no handshake raises 'not a
\* handshake' and leaves the local identity and the outbound queue as they
\* were; of a handshake it sets db_id, ssn_id and stamp from the op and
\* enqueues the op.
C16_SendHandshakeAllOrNothing ==
    [][\A op \in HandshakeOps, fail \in BOOLEAN :
          SendHandshake(op, fail) =>
              IF ProperHandshake(op)
              THEN /\ db_id' = op.spec["#"]
                   /\ ssn_id' = SpecOrigin(op.spec)
                   /\ stamp' = SpecStamp(op.spec)
                   /\ sent' = Append(sent, op)
              ELSE /\ raised' = "not a handshake"
                   /\ UNCHANGED <<db_id, ssn_id, stamp, pending_s, sent>>]_vars

\* C17: on an open connection the remainder is at most MaxRemainder long; a
\* chunk that leaves more than that unresolved is a fatal error that closes
\* the connection, and the buffer is not cut to fit.
C17_BoundedRemainder ==
    /\ [](~Closed => Len(remainder) <= MaxRemainder)
    /\ [][(~Closed /\ chunks' = chunks + 1) =>
             \A data \in Chunks :
                 (/\ Len(remainder \o data) > MaxRemainder
                  /\ Parse(remainder \o data, peer_stamp).error = "large unparseable input"
                  /\ OnStreamDataReceived(data))
                 => /\ Closed'
                    /\ errors' = errors + 1
                    /\ remainder' = remainder \o data]_vars

\* a chunk left more than MaxRemainder unresolved: one error, Closed
C17_OversizedClosed ==
    /\ Closed
    /\ errors = 1
    /\ faults = 1
    /\ rejectedAt = -1
    /\ mismatchAt = -1
    /\ written = <<>>
    /\ Len(remainder) > MaxRemainder
    /\ ~Contains(remainder, "\n")

\* C19: the four peer fields are all unset, or all set by one accepted
\* handshake whose 'id' was emitted; a first op that is rejected, for its
\* shape or for its options, leaves them unset; once set they never change,
\* and 'id' is emitted at most once.
C19_PeerIdentityAtomic ==
    /\ [](/\ ids <= 1
          /\ ids = 0 => /\ peer_db_id = <<>>
                        /\ peer_ssn_id = <<>>
                        /\ peer_options = <<>>
                        /\ peer_stamp = <<>>
          /\ ids = 1 => /\ peer_db_id # <<>>
                        /\ peer_ssn_id # <<>>
                        /\ peer_options # <<>>
                        /\ peer_stamp # <<>>)
    /\ [][peer_stamp # <<>> =>
              UNCHANGED <<peer_db_id, peer_ssn_id, peer_options, peer_stamp, ids>>]_vars

\* C20: no step taken on a Closed connection writes to the transport or
\* ends it, a deferred flush and a keep-alive tick included, and the
\* transport is ended at most once.
C20_NoTransportUseAfterClose ==
    /\ [](streamEnded <= 1)
    /\ [][Closed => (written' = written /\ streamEnded' = streamEnded)]_vars

\* the connection was ended with an op queued and a deferred flush armed;
\* the deferred flush has run since, and wrote nothing
C20_DeferredFlushAfterClose ==
    /\ Closed
    /\ streamEnded = 1
    /\ flush_timeout = "timeout"
    /\ timeouts = 0
    /\ pending_s # <<>>
    /\ written = <<>>

(***************************************************************************)
(* Properties of Op.parse, checked under SpecParse.                        *)
(***************************************************************************)
\* C8: a document read in two chunks, the remainder of the first call put in
\* front of the second chunk, gives the ops of the document read in one
\* call, and no error the one call does not raise.
C8_ChunkingInvariant ==
    doc \in Docs =>
        /\ failed # "none" => Parse(doc, <<>>).error = failed
        /\ (fed = 2 /\ failed = "none") => got = Parse(doc, <<>>).ops

\* the text was read in one call of Op.parse
OneCall == fed = 1 /\ cut = Len(doc)

\* C13: the text of an op with a value and no patch, read in one call, gives
\* one op with the address and the value of the op, and an empty remainder;
\* for every value, one that starts with a blank or holds a newline too.
C13_RoundTrip ==
    (OneCall /\ Len(built) = 1) =>
        /\ failed = "none"
        /\ Len(got) = 1
        /\ got[1].spec = built[1].spec
        /\ got[1].value = built[1].value
        /\ rest = <<>>

\* the symbols of a text that are neither blanks nor marks of the grammar
TokensOf(text) == {text[i] : i \in 1..Len(text)} \ (rsQuant \cup Blank \cup {"+", "\n"})

SpecTokens(spec) == UNION {TokensOf(spec[q]) : q \in rsQuant}

\* what an op holds of the text it was read from, its patch included
OpTokens(op) ==
    SpecTokens(op.spec) \cup TokensOf(op.value) \cup
    UNION {SpecTokens(op.patch[i].spec) \cup TokensOf(op.patch[i].value) :
              i \in 1..Len(op.patch)}

\* C14: Op.parse skips no line silently: it fails, or everything written on
\* the lines of the text is in an op it returns or in the remainder.
C14_NothingSkipped ==
    (OneCall /\ built = <<>>) =>
        \/ failed # "none"
        \/ TokensOf(doc) \subseteq
               TokensOf(rest) \cup UNION {OpTokens(got[i]) : i \in 1..Len(got)}

\* the cut is where one write ends and the next begins, or nowhere
CutAtWrite == cut \in {0, Len(toString(built[1])), Len(doc)}

\* C18: the texts written for two patch-free ops, read write by write or as
\* one chunk, give the two ops, with their addresses and values.
C18_WireFidelity ==
    (Len(built) = 2 /\ CutAtWrite /\ (fed = 2 \/ failed # "none")) =>
        /\ failed = "none"
        /\ Len(got) = 2
        /\ \A i \in 1..2 : got[i].spec = built[i].spec /\ got[i].value = built[i].value

=============================================================================
